---- MODULE Spec2Model ----
(***************************************************************************)
(* Model of photo-transfer.py: a script that walks an input tree, copies   *)
(* every file to output/year/month/day/ according to its EXIF original     *)
(* date (or its modification time), renames the copy when the destination  *)
(* exists, and keeps a sqlite ledger of (original, copy) rows so that a    *)
(* second run only processes new files.                                    *)
(*                                                                         *)
(* Strings are sequences of one-character strings, so that the path and    *)
(* file name manipulations of the script (os.path.split, os.path.splitext, *)
(* the version regular expression, str.split, the substring test of        *)
(* already_copied) are computed character by character.                    *)
(*                                                                         *)
(* The input tree is not changed by the runs and lies outside the output   *)
(* roots; the output tree holds directories and regular files only, and no *)
(* directory stands at the path of a copy.  The timestamp column of the    *)
(* ledger and the log files are not modelled.  A run is a sequence of      *)
(* steps, one per side effect on the output tree or on the ledger, so that *)
(* a failure or a termination can fall between any two of them.            *)
(***************************************************************************)
EXTENDS Integers, Sequences, FiniteSets, TLC

VARIABLES
    tags,               \* per source file: the EXIF DateTimeOriginal tag read by exifread
    fs,                 \* the output file system: path -> directory or file entry
    dbExists,           \* os.path.exists(DATABASE)
    ledger,             \* rows of table photo_transfer, in insertion order
    rowFactory,         \* row_factory of the open connection ("Row" or "tuple")
    pc,                 \* position of the process inside process_path
    inputpath,          \* argument of the current run of process_path
    outputpath,         \* argument of the current run of process_path
    idx,                \* index in the walk of the file being processed
    counter,            \* process_path: counter
    processed_counter,  \* process_path: processed_counter
    from_exif,          \* process_path: from_exif
    file_date,          \* process_path: file_date
    copy,               \* copy_file: copy
    runs,               \* number of runs of process_path started so far
    faults,             \* number of I/O failures and terminations so far
    start_rows,         \* number of ledger rows when the current run started
    last,               \* outcome of the previous run, when it ran to completion
    incidents,          \* transfers that failed in os.mkdir or shutil.copy2, as far as they are noted
    written,            \* the paths that shutil.copy2 opened for writing in the current run
    filename,           \* rename_copy: argument
    renamed             \* rename_copy: return value

vars == <<tags, fs, dbExists, ledger, rowFactory, pc, inputpath, outputpath, idx,
          counter,
          processed_counter, from_exif, file_date, copy, runs, faults,
          start_rows, last, incidents, written, filename, renamed>>

procVars == <<tags, fs, dbExists, ledger, rowFactory, pc, inputpath, outputpath, idx,
          counter,
              processed_counter, from_exif, file_date, copy, runs, faults,
              start_rows, last, incidents, written>>

(***************************************************************************)
(* Bounds of the model.                                                    *)
(***************************************************************************)
MaxRuns == 2
MaxFaults == 1
MaxLen == 4

None == <<"None">>

(***************************************************************************)
(* Strings.                                                                *)
(***************************************************************************)
Digit == <<"0", "1", "2", "3", "4", "5", "6", "7", "8", "9">>

IsDigit(c) == \E i \in 1..10 : Digit[i] = c

DigitVal(c) == (CHOOSE i \in 1..10 : Digit[i] = c) - 1

\* str(n) for a natural number n
RECURSIVE Str(_)
Str(n) == IF n < 10 THEN <<Digit[n + 1]>>
          ELSE Str(n \div 10) \o <<Digit[(n % 10) + 1]>>

\* int(s) for a non-empty string of decimal digits
RECURSIVE Int_(_)
Int_(s) == IF Len(s) = 0 THEN 0
           ELSE Int_(SubSeq(s, 1, Len(s) - 1)) * 10 + DigitVal(s[Len(s)])

\* s.rfind(c), 1-based; 0 when c does not occur
RFind(s, c) == IF \E i \in 1..Len(s) : s[i] = c
               THEN CHOOSE i \in 1..Len(s) : s[i] = c /\ \A j \in (i+1)..Len(s) : s[j] # c
               ELSE 0

\* s.find(c), 1-based; 0 when c does not occur
Find(s, c) == IF \E i \in 1..Len(s) : s[i] = c
              THEN CHOOSE i \in 1..Len(s) : s[i] = c /\ \A j \in 1..(i-1) : s[j] # c
              ELSE 0

\* sub in s
Contains(s, sub) ==
    \E i \in 0..(Len(s) - Len(sub)) : SubSeq(s, i + 1, i + Len(sub)) = sub

\* s.rstrip('/')
RECURSIVE RStripSlash(_)
RStripSlash(s) == IF Len(s) > 0 /\ s[Len(s)] = "/"
                  THEN RStripSlash(SubSeq(s, 1, Len(s) - 1))
                  ELSE s

\* os.path.split(p): <<head, tail>>
PathSplit(p) ==
    LET i == RFind(p, "/")
        head == SubSeq(p, 1, i)
        tail == SubSeq(p, i + 1, Len(p))
    IN  IF Len(head) > 0 /\ \E j \in 1..Len(head) : head[j] # "/"
        THEN <<RStripSlash(head), tail>>
        ELSE <<head, tail>>

\* os.path.join(a, b)
PathJoin(a, b) ==
    IF Len(b) > 0 /\ b[1] = "/" THEN b
    ELSE IF Len(a) = 0 \/ a[Len(a)] = "/" THEN a \o b
    ELSE a \o <<"/">> \o b

\* os.path.splitext(p) for a p without separator: <<root, ext>>
SplitExt(p) ==
    LET dot == RFind(p, ".")
    IN  IF dot > 0 /\ \E j \in 1..(dot - 1) : p[j] # "."
        THEN <<SubSeq(p, 1, dot - 1), SubSeq(p, dot, Len(p))>>
        ELSE <<p, <<>>>>

\* re.search('\((\d+)\)$', s): the digits of group 1, or None without a match
VersionSearch(s) ==
    LET n == Len(s)
    IN  IF n >= 3 /\ s[n] = ")"
           /\ \E i \in 1..(n - 2) :
                 /\ s[i] = "("
                 /\ \A j \in (i + 1)..(n - 1) : IsDigit(s[j])
        THEN LET i == CHOOSE i \in 1..(n - 2) :
                          /\ s[i] = "("
                          /\ \A j \in (i + 1)..(n - 1) : IsDigit(s[j])
             IN  SubSeq(s, i + 1, n - 1)
        ELSE None

\* s.split('(')[0]
BeforeFirstParen(s) ==
    LET i == Find(s, "(")
    IN  IF i = 0 THEN s ELSE SubSeq(s, 1, i - 1)

\* a mutant of rename_copy: the version is never increased
rename_copy_same_version(name) ==
    LET sp == PathSplit(name)
        se == SplitExt(sp[2])
        version == VersionSearch(se[1])
        num_version == IF version # None THEN Int_(version) ELSE 1
        base == IF version # None THEN BeforeFirstParen(se[1]) ELSE se[1]
    IN  PathJoin(sp[1], base \o <<"(">> \o Str(num_version) \o <<")">> \o se[2])

rename_copy(name) ==
    LET sp == PathSplit(name)
        se == SplitExt(sp[2])
        version == VersionSearch(se[1])
        num_version == IF version # None THEN Int_(version) + 1 ELSE 1
        base == IF version # None THEN BeforeFirstParen(se[1]) ELSE se[1]
    IN  PathJoin(sp[1], base \o <<"(">> \o Str(num_version) \o <<")">> \o se[2])

(***************************************************************************)
(* Dates, EXIF tags and the source files of the input tree.                *)
(***************************************************************************)
Date(y, m, d, H, M, S) ==
    [year |-> y, month |-> m, day |-> d, hour |-> H, minute |-> M, second |-> S]

NoDate == Date(0, 0, 0, 0, 0, 0)

\* the wall clock date of the runs (datetime.now())
Today == Date(2015, 8, 2, 12, 0, 0)

\* An EXIF DateTimeOriginal value is the sequence of the digit fields found
\* between the separators of '%Y:%m:%d %H:%M:%S'; NoTag is the absent tag.
NoTag == <<<<"absent">>>>
TagGood == <<<<"2","0","0","1">>, <<"1","1">>, <<"1","9">>,
             <<"1","0">>, <<"2","0">>, <<"3","0">>>>
TagZero == <<<<"0","0","0","0">>, <<"0","0">>, <<"0","0">>,
             <<"0","0">>, <<"0","0">>, <<"0","0">>>>
TagNov31 == <<<<"2","0","0","1">>, <<"1","1">>, <<"3","1">>,
              <<"1","0">>, <<"2","0">>, <<"3","0">>>>
TagNoTime == <<<<"2","0","0","1">>, <<"1","1">>, <<"1","9">>>>

AllDigits(s) == Len(s) > 0 /\ \A i \in 1..Len(s) : IsDigit(s[i])

IsLeap(y) == (y % 4 = 0 /\ y % 100 # 0) \/ y % 400 = 0

DaysInMonth(y, m) ==
    IF m = 2 THEN (IF IsLeap(y) THEN 29 ELSE 28)
    ELSE IF m \in {4, 6, 9, 11} THEN 30 ELSE 31

\* datetime.strptime(str(tag), EXIF_DATE_FMT): the date, or NoDate when it raises
Strptime(tag) ==
    IF Len(tag) # 6 \/ \E i \in 1..Len(tag) : ~AllDigits(tag[i]) THEN NoDate
    ELSE LET y == Int_(tag[1])
             m == Int_(tag[2])
             d == Int_(tag[3])
             H == Int_(tag[4])
             M == Int_(tag[5])
             S == Int_(tag[6])
         IN  IF /\ Len(tag[1]) = 4 /\ y >= 1
                /\ Len(tag[2]) <= 2 /\ m \in 1..12
                /\ Len(tag[3]) <= 2 /\ d \in 1..DaysInMonth(y, m)
                /\ Len(tag[4]) <= 2 /\ H \in 0..23
                /\ Len(tag[5]) <= 2 /\ M \in 0..59
                /\ Len(tag[6]) <= 2 /\ S \in 0..59
             THEN Date(y, m, d, H, M, S)
             ELSE NoDate

DirA == <<"i", "/", "a">>
DirB == <<"i", "/", "b">>
DirC == <<"i", "/", "c">>
NameP == <<"p", ".", "j">>

DateMar5 == Date(2010, 3, 5, 9, 0, 0)
DateNov19 == Date(2001, 11, 19, 8, 0, 0)

\* The files of the input tree, in the order in which os.walk yields them:
\* the directory, the file name, os.path.getmtime and the content (the
\* identity of the file).
Files == <<[root |-> DirA, name |-> NameP, mtime |-> DateMar5,  content |-> 1],
           [root |-> DirB, name |-> NameP, mtime |-> DateMar5,  content |-> 2],
           [root |-> DirC, name |-> NameP, mtime |-> DateNov19, content |-> 3]>>

NFiles == Len(Files)

\* full_filename = os.path.join(root, current_file)
FullFilename(i) == PathJoin(Files[i].root, Files[i].name)

DirI == <<"i">>
InputPaths == {DirI, DirB}

\* the directory dir is top or lies below top
Below(dir, top) ==
    \/ dir = top
    \/ Len(dir) > Len(top) /\ SubSeq(dir, 1, Len(top) + 1) = top \o <<"/">>

\* the files that os.walk(top) yields, in order, as indices of Files
RECURSIVE WalkFrom(_, _)
WalkFrom(top, i) ==
    IF i > NFiles THEN <<>>
    ELSE (IF Below(Files[i].root, top) THEN <<i>> ELSE <<>>) \o WalkFrom(top, i + 1)

\* a mutant of Walk: the subdirectories of top are not visited
Walk_top_only(top) ==
    SelectSeq(WalkFrom(top, 1), LAMBDA i : Files[i].root = top)

Walk(top) == WalkFrom(top, 1)

\* the tags that exifread may find in each file
TagChoices(i) ==
    IF i = 1 THEN {NoTag, TagGood, TagZero}
    ELSE IF i = 2 THEN {NoTag, TagGood, TagNov31}
    ELSE {NoTag, TagGood, TagNoTime}

RootO == <<"o">>
RootO2 == <<"o", "2">>
Roots == {RootO, RootO2}

(***************************************************************************)
(* The output file system.                                                 *)
(***************************************************************************)
DirEntry == [kind |-> "dir", content |-> 0, mtime |-> NoDate]
FileEntry(c, t) == [kind |-> "file", content |-> c, mtime |-> t]

\* a file that was opened for writing and not completely written
PartialEntry == FileEntry(0, Today)

Exists(f, p) == p \in DOMAIN f
IsDir(f, p) == p \in DOMAIN f /\ f[p].kind = "dir"

Put(f, p, e) == [q \in DOMAIN f \cup {p} |-> IF q = p THEN e ELSE f[q]]

\* the output roots exist and are directories (main checks it)
EmptyOutput == [p \in Roots |-> DirEntry]

\* an output tree where a regular file stands where a year directory would go
BlockedOutput == Put(EmptyOutput, PathJoin(RootO, Str(2010)), FileEntry(9, DateMar5))

(***************************************************************************)
(* Database functions.                                                     *)
(***************************************************************************)
\* the rows returned by SQL_SELECT
Select(rows, original) ==
    {i \in 1..Len(rows) : rows[i].original = original}

\* a mutant of already_copied: the copy path is compared with the output path
already_copied_equal(rows, original, output) ==
    \E i \in Select(rows, original) : rows[i].copy = output

already_copied(rows, original, output) ==
    \E i \in Select(rows, original) : Contains(rows[i].copy, output)

\* row['copy'] raises TypeError on a connection without row_factory
AlreadyCopiedRaises(rows, original, factory) ==
    factory = "tuple" /\ Select(rows, original) # {}

\* a mutant of persist_original: the row replaces the rows of the same original
persist_original_replace(rows, original, copy_) ==
    SelectSeq(rows, LAMBDA r : r.original # original)
        \o <<[original |-> original, copy |-> copy_]>>

\* a mutant of persist_original: the INSERT is not committed and gets lost
persist_original_no_commit(rows, original, copy_) == rows

persist_original(rows, original, copy_) ==
    Append(rows, [original |-> original, copy |-> copy_])

(***************************************************************************)
(* Date and destination.                                                   *)
(***************************************************************************)
\* a mutant of original_date: the fallback is the current date
original_date_now(i, tag) ==
    IF tag # NoTag /\ Strptime(tag) # NoDate
    THEN <<TRUE, Strptime(tag)>>
    ELSE <<FALSE, Today>>

original_date(i, tag) ==
    IF tag # NoTag /\ Strptime(tag) # NoDate
    THEN <<TRUE, Strptime(tag)>>
    ELSE <<FALSE, Files[i].mtime>>

\* the loop of get_or_create_path over the remaining subpaths
RECURSIVE MakeDirs(_, _, _)
MakeDirs(f, path, subpaths) ==
    IF subpaths = <<>> THEN [fs |-> f, path |-> path, ok |-> TRUE]
    ELSE LET p == PathJoin(path, Head(subpaths))
         IN  IF IsDir(f, p) THEN MakeDirs(f, p, Tail(subpaths))
             ELSE IF Exists(f, p) THEN [fs |-> f, path |-> p, ok |-> FALSE]
             ELSE MakeDirs(Put(f, p, DirEntry), p, Tail(subpaths))

\* the loop of a get_or_create_path that calls os.mkdir without os.path.isdir
RECURSIVE MakeDirsUnchecked(_, _, _)
MakeDirsUnchecked(f, path, subpaths) ==
    IF subpaths = <<>> THEN [fs |-> f, path |-> path, ok |-> TRUE]
    ELSE LET p == PathJoin(path, Head(subpaths))
         IN  IF Exists(f, p) THEN [fs |-> f, path |-> p, ok |-> FALSE]
             ELSE MakeDirsUnchecked(Put(f, p, DirEntry), p, Tail(subpaths))

\* a mutant of get_or_create_path: os.mkdir is called for existing directories
get_or_create_path_unchecked(f, path, date) ==
    MakeDirsUnchecked(f, path, <<Str(date.year), Str(date.month), Str(date.day)>>)

\* a mutant of get_or_create_path: the day directory is left out
get_or_create_path_no_day(f, path, date) ==
    MakeDirs(f, path, <<Str(date.year), Str(date.month)>>)

\* a mutant of get_or_create_path: the date is not used
get_or_create_path_flat(f, path, date) == [fs |-> f, path |-> path, ok |-> TRUE]

get_or_create_path(f, path, date) ==
    MakeDirs(f, path, <<Str(date.year), Str(date.month), Str(date.day)>>)

(***************************************************************************)
(* The runs of process_path.                                               *)
(***************************************************************************)
NoRun == [done |-> FALSE, input |-> <<>>, root |-> <<>>, fs |-> <<>>, ledger |-> <<>>]

Running == {"check", "date", "dest", "copy", "copying", "persist"}
Stopped == {"idle", "done", "aborted", "fatal", "killed"}

Init ==
    /\ tags \in {t \in [1..NFiles -> UNION {TagChoices(i) : i \in 1..NFiles}] :
                    \A i \in 1..NFiles : t[i] \in TagChoices(i)}
    /\ fs \in {EmptyOutput, BlockedOutput}
    /\ dbExists = FALSE
    /\ ledger = <<>>
    /\ rowFactory = "Row"
    /\ pc = "idle"
    /\ inputpath = <<>>
    /\ outputpath = <<>>
    /\ idx = 0
    /\ counter = 0
    /\ processed_counter = 0
    /\ from_exif = FALSE
    /\ file_date = NoDate
    /\ copy = <<>>
    /\ runs = 0
    /\ faults = 0
    /\ start_rows = 0
    /\ last = NoRun
    /\ incidents = {}
    /\ written = {}
    /\ filename = <<>>
    /\ renamed = None

\* the file of the walk that the process is at
Cur == Walk(inputpath)[idx]

\* the transfer of the current file to the current output root
Transfer == [file |-> Cur, root |-> outputpath]

\* the process goes on with the next file of the walk, or leaves the loops
NextFile ==
    /\ idx' = idx + 1
    /\ pc' = IF idx = Len(Walk(inputpath)) THEN "done" ELSE "check"

\* main calls process_path(args.input, args.output); open_database succeeds;
\* limit bounds the number of runs
Start(input, output, limit) ==
    /\ pc \in Stopped
    /\ runs < limit
    /\ runs' = runs + 1
    /\ last' = IF pc = "done"
               THEN [done |-> TRUE, input |-> inputpath, root |-> outputpath,
                     fs |-> fs, ledger |-> ledger]
               ELSE NoRun
    /\ inputpath' = input
    /\ outputpath' = output
    /\ counter' = 0
    /\ processed_counter' = 0
    /\ rowFactory' = IF dbExists THEN "Row" ELSE "tuple"
    /\ dbExists' = TRUE
    /\ start_rows' = Len(ledger)
    /\ idx' = 1
    /\ pc' = IF Walk(input) = <<>> THEN "done" ELSE "check"
    /\ UNCHANGED <<tags, fs, ledger, from_exif, file_date, copy, faults,
                   filename, renamed>>
    /\ written' = {}
    /\ UNCHANGED incidents

StartRun(input, output) == Start(input, output, MaxRuns)

\* sqlite3.connect raises in open_database: the run ends before the walk
StartRunFails(input, output) ==
    /\ pc \in Stopped
    /\ runs < MaxRuns
    /\ faults < MaxFaults
    /\ runs' = runs + 1
    /\ faults' = faults + 1
    /\ last' = NoRun
    /\ inputpath' = input
    /\ outputpath' = output
    /\ counter' = 0
    /\ processed_counter' = 0
    /\ start_rows' = Len(ledger)
    /\ idx' = 0
    /\ pc' = "fatal"
    /\ UNCHANGED <<tags, fs, dbExists, ledger, rowFactory, from_exif, file_date,
                   copy, filename, renamed>>
    /\ written' = {}
    /\ UNCHANGED incidents

\* counter += 1 and the test of already_copied
CheckFile ==
    /\ pc = "check"
    /\ counter' = counter + 1
    /\ IF AlreadyCopiedRaises(ledger, FullFilename(Cur), rowFactory)
       THEN pc' = "aborted" /\ idx' = idx
       ELSE IF already_copied(ledger, FullFilename(Cur), outputpath)
       THEN NextFile
       ELSE pc' = "date" /\ idx' = idx
    /\ UNCHANGED <<tags, fs, dbExists, ledger, rowFactory, inputpath, outputpath,
                   processed_counter, from_exif, file_date, copy, runs, faults,
                   start_rows, last, filename, renamed, incidents,
                   written>>

\* from_exif, file_date = original_date(full_filename)
ResolveDate ==
    /\ pc = "date"
    /\ from_exif' = original_date(Cur, tags[Cur])[1]
    /\ file_date' = original_date(Cur, tags[Cur])[2]
    /\ pc' = "dest"
    /\ UNCHANGED <<tags, fs, dbExists, ledger, rowFactory, inputpath, outputpath, idx, counter,
                   processed_counter, copy, runs, faults, start_rows, last,
                   filename, renamed, incidents,
                   written>>

\* open(filename, 'rb') raises in original_date
ResolveDateFails ==
    /\ pc = "date"
    /\ faults < MaxFaults
    /\ faults' = faults + 1
    /\ pc' = "aborted"
    /\ UNCHANGED <<tags, fs, dbExists, ledger, rowFactory, inputpath, outputpath, idx, counter,
                   processed_counter, from_exif, file_date, copy, runs,
                   start_rows, last, filename, renamed, incidents,
                   written>>

\* copy_file up to the call of shutil.copy2: the destination directory and
\* the name of the copy; a failure of os.mkdir is noted when noted is true
Derive(noted) ==
    /\ pc = "dest"
    /\ LET r == get_or_create_path(fs, outputpath, file_date)
           natural == PathJoin(r.path, Files[Cur].name)
       IN  /\ fs' = r.fs
           /\ IF r.ok
              THEN /\ copy' = IF Exists(r.fs, natural) THEN rename_copy(natural)
                              ELSE natural
                   /\ pc' = "copy"
              ELSE /\ copy' = copy
                   /\ pc' = "aborted"
    /\ UNCHANGED <<tags, dbExists, ledger, rowFactory, inputpath, outputpath, idx, counter,
                   processed_counter, from_exif, file_date, runs, faults,
                   start_rows, last, filename, renamed>>
    /\ incidents' = IF get_or_create_path(fs, outputpath, file_date).ok \/ ~noted
                    THEN incidents
                    ELSE incidents \cup {Transfer}
    /\ UNCHANGED written

DeriveDestination == Derive(FALSE)

\* shutil.copy2 opens the destination for writing
CopyOpen ==
    /\ pc = "copy"
    /\ fs' = Put(fs, copy, PartialEntry)
    /\ pc' = "copying"
    /\ UNCHANGED <<tags, dbExists, ledger, rowFactory, inputpath, outputpath, idx, counter,
                   processed_counter, from_exif, file_date, copy, runs, faults,
                   start_rows, last, filename, renamed>>
    /\ written' = written \cup {copy}
    /\ UNCHANGED incidents

\* shutil.copy2 has written the content and copied the modification time
CopyFinish ==
    /\ pc = "copying"
    /\ fs' = Put(fs, copy, FileEntry(Files[Cur].content, Files[Cur].mtime))
    /\ pc' = "persist"
    /\ UNCHANGED <<tags, dbExists, ledger, rowFactory, inputpath, outputpath, idx, counter,
                   processed_counter, from_exif, file_date, copy, runs, faults,
                   start_rows, last, filename, renamed, incidents,
                   written>>

\* shutil.copy2 raises, before or after it opened the destination; the
\* failure is noted when noted is true
CopyRaises(noted) ==
    /\ pc \in {"copy", "copying"}
    /\ faults < MaxFaults
    /\ faults' = faults + 1
    /\ pc' = "aborted"
    /\ UNCHANGED <<tags, fs, dbExists, ledger, rowFactory, inputpath, outputpath, idx, counter,
                   processed_counter, from_exif, file_date, copy, runs,
                   start_rows, last, filename, renamed>>
    /\ incidents' = IF noted THEN incidents \cup {Transfer} ELSE incidents
    /\ UNCHANGED written

CopyFails == CopyRaises(FALSE)

\* persist_original, then processed_counter += 1
Persist ==
    /\ pc = "persist"
    /\ ledger' = persist_original(ledger, FullFilename(Cur), copy)
    /\ processed_counter' = processed_counter + 1
    /\ NextFile
    /\ UNCHANGED <<tags, fs, dbExists, rowFactory, inputpath, outputpath, counter,
                   from_exif, file_date, copy, runs, faults, start_rows, last,
                   filename, renamed, written>>
    /\ incidents' = incidents \ {Transfer}

\* the INSERT or the commit raises in persist_original
PersistFails ==
    /\ pc = "persist"
    /\ faults < MaxFaults
    /\ faults' = faults + 1
    /\ pc' = "aborted"
    /\ UNCHANGED <<tags, fs, dbExists, ledger, rowFactory, inputpath, outputpath, idx, counter,
                   processed_counter, from_exif, file_date, copy, runs,
                   start_rows, last, filename, renamed, incidents,
                   written>>

\* the process is terminated from outside
Terminate ==
    /\ pc \in Running
    /\ faults < MaxFaults
    /\ faults' = faults + 1
    /\ pc' = "killed"
    /\ UNCHANGED <<tags, fs, dbExists, ledger, rowFactory, inputpath, outputpath, idx, counter,
                   processed_counter, from_exif, file_date, copy, runs,
                   start_rows, last, filename, renamed>>
    /\ UNCHANGED <<incidents, written>>

Next ==
    \/ \E input \in InputPaths, output \in Roots : StartRun(input, output)
    \/ \E input \in InputPaths, output \in Roots : StartRunFails(input, output)
    \/ CheckFile
    \/ ResolveDate
    \/ ResolveDateFails
    \/ DeriveDestination
    \/ CopyOpen
    \/ CopyFinish
    \/ CopyFails
    \/ Persist
    \/ PersistFails
    \/ Terminate

Spec == Init /\ [][Next]_vars

(***************************************************************************)
(* Runs where shutil.copy2 and os.mkdir are what fails, the failed         *)
(* transfers are noted, and one more run is made.                          *)
(***************************************************************************)
StartRetry(input, output) == Start(input, output, MaxRuns + 1)

DeriveNoted == Derive(TRUE)

CopyFailsNoted == CopyRaises(TRUE)

NextRetry ==
    \/ \E input \in InputPaths, output \in Roots : StartRetry(input, output)
    \/ CheckFile
    \/ ResolveDate
    \/ DeriveNoted
    \/ CopyOpen
    \/ CopyFinish
    \/ CopyFailsNoted
    \/ Persist

SpecRetry == Init /\ [][NextRetry]_vars

(***************************************************************************)
(* Runs where the termination of the process is all that goes wrong.       *)
(***************************************************************************)
NextCrash ==
    \/ \E input \in InputPaths, output \in Roots : StartRun(input, output)
    \/ CheckFile
    \/ ResolveDate
    \/ DeriveDestination
    \/ CopyOpen
    \/ CopyFinish
    \/ Persist
    \/ Terminate

SpecCrash == Init /\ [][NextCrash]_vars

(***************************************************************************)
(* rename_copy applied to every short path.                                *)
(***************************************************************************)
Alphabet == {"a", "(", ")", "1", "9", ".", "/"}

PathsUpTo(n) == UNION {[1..k -> Alphabet] : k \in 0..n}

InitRename ==
    /\ filename \in PathsUpTo(MaxLen)
    /\ renamed = None
    /\ tags = [i \in 1..NFiles |-> NoTag]
    /\ fs = EmptyOutput
    /\ dbExists = FALSE
    /\ ledger = <<>>
    /\ rowFactory = "Row"
    /\ pc = "idle"
    /\ inputpath = <<>>
    /\ outputpath = <<>>
    /\ idx = 0
    /\ counter = 0
    /\ processed_counter = 0
    /\ from_exif = FALSE
    /\ file_date = NoDate
    /\ copy = <<>>
    /\ runs = 0
    /\ faults = 0
    /\ start_rows = 0
    /\ last = NoRun
    /\ incidents = {}
    /\ written = {}

RenameCopy ==
    /\ renamed = None
    /\ renamed' = rename_copy(filename)
    /\ UNCHANGED <<filename, procVars>>

NextRename == RenameCopy

SpecRename == InitRename /\ [][NextRename]_vars

(***************************************************************************)
(* Properties.                                                             *)
(***************************************************************************)
\* path lies below the directory root
IsUnder(path, root) ==
    Len(path) > Len(root) + 1 /\ SubSeq(path, 1, Len(root) + 1) = root \o <<"/">>

\* the segments of a path between its separators
RECURSIVE Segments(_)
Segments(p) ==
    LET i == Find(p, "/")
    IN  IF i = 0 THEN <<p>>
        ELSE <<SubSeq(p, 1, i - 1)>> \o Segments(SubSeq(p, i + 1, Len(p)))

DirOf(p) == PathSplit(p)[1]

\* the previous run completed and the current run has the same arguments
SecondRun ==
    /\ last.done
    /\ last.input = inputpath
    /\ last.root = outputpath
    /\ pc \in Running \cup {"done", "aborted", "killed"}

\* C1: a run of process_path that follows a completed run over the same input
\* path, output root and ledger copies nothing, adds no ledger row and leaves
\* the output tree as the first run left it.
Idempotence ==
    SecondRun => /\ processed_counter = 0
                 /\ ledger = last.ledger
                 /\ fs = last.fs

\* a second run over three transferred files has completed
IdempotenceWitness ==
    /\ SecondRun
    /\ pc = "done"
    /\ counter = 3
    /\ Len(ledger) = 3

RecordLifecycleStep ==
    /\ ledger' # ledger =>
          /\ pc = "persist"
          /\ Exists(fs, copy)
          /\ fs[copy] = FileEntry(Files[Cur].content, Files[Cur].mtime)
          /\ ledger' = ledger \o <<[original |-> FullFilename(Cur), copy |-> copy]>>
    /\ (pc = "persist" /\ pc' \in {"check", "done"}) => Len(ledger') = Len(ledger) + 1
    /\ (pc' = "check" /\ pc # "check" /\ pc \in Running) => pc = "persist"
    /\ Len(ledger') >= Len(ledger)
    /\ SubSeq(ledger', 1, Len(ledger)) = ledger

RecordLifecycle == [][RecordLifecycleStep]_vars

\* a run has added a row to a ledger that held the rows of an earlier run
RecordLifecycleWitness ==
    /\ start_rows > 0
    /\ Len(ledger) > start_rows
    /\ \E i \in 1..start_rows : ledger[i].original = ledger[Len(ledger)].original

\* path is root/year/month/day/name: below the segments of root, exactly three
\* numeric segments that are the decimal year, month and day of date, then a
\* file name
HasShape(path, root, date) ==
    LET segs == Segments(path)
        n == Len(Segments(root))
    IN  /\ Len(segs) = n + 4
        /\ SubSeq(segs, 1, n) = Segments(root)
        /\ \A k \in 1..3 : AllDigits(segs[n + k])
        /\ segs[n + 1][1] # "0" /\ Int_(segs[n + 1]) = date.year
        /\ segs[n + 2][1] # "0" /\ Int_(segs[n + 2]) = date.month
        /\ segs[n + 3][1] # "0" /\ Int_(segs[n + 3]) = date.day
        /\ Len(segs[n + 4]) > 0

ResolvedDates == {DateMar5, DateNov19, Date(2001, 11, 19, 10, 20, 30)}

\* C10: every ledger row's copy has the form root/year/month/day/filename for
\* an output root and a resolved date, and the row that a run creates has this
\* form for the output root of that run and the date resolved for the file.
CopyPathShapeStep ==
    /\ \A i \in 1..Len(ledger') :
          \E root \in Roots, date \in ResolvedDates :
              HasShape(ledger'[i].copy, root, date)
    /\ ledger' # ledger =>
          HasShape(ledger'[Len(ledger')].copy, outputpath, file_date)

CopyPathShape == [][CopyPathShapeStep]_vars

\* a row with a renamed copy below the output root o2
CopyPathShapeWitness ==
    \E i \in 1..Len(ledger) :
        ledger[i].copy = <<"o", "2", "/", "2", "0", "0", "1", "/", "1", "1", "/",
                           "1", "9", "/", "p", "(", "1", ")", ".", "j">>

\* the date that the description of original_date gives for file i: the one
\* well-formed tag of the model gives its date, every other tag the
\* modification time
ExpectedDate(i) ==
    IF tags[i] = TagGood
    THEN <<TRUE, Date(2001, 11, 19, 10, 20, 30)>>
    ELSE <<FALSE, Files[i].mtime>>

\* the directory root/year/month/day of the two calendar dates of the model
ExpectedDir(root, date) ==
    IF date.year = 2001 /\ date.month = 11 /\ date.day = 19
    THEN root \o <<"/", "2", "0", "0", "1", "/", "1", "1", "/", "1", "9">>
    ELSE IF date.year = 2010 /\ date.month = 3 /\ date.day = 5
    THEN root \o <<"/", "2", "0", "1", "0", "/", "3", "/", "5">>
    ELSE <<>>

NoOverwrite == [][(pc = "copy" /\ pc' = "copying") => ~Exists(fs, copy)]_vars

\* every regular file of the output tree is the copy of a ledger row
NoUnrecordedFile ==
    \A p \in DOMAIN fs :
        fs[p].kind = "file" => \E i \in 1..Len(ledger) : ledger[i].copy = p

\* the name p.j with version n: p.j, p(1).j, p(2).j, ...
VersionedName(n) ==
    IF n = 0 THEN NameP
    ELSE <<"p", "(">> \o Str(n) \o <<")", ".", "j">>

\* C3: when the output tree holds nothing but recorded copies, the k-th file
\* named p.j that was transferred to a destination directory is recorded at
\* p(k-1).j of that directory and its copy is there with its content.
CollisionChain ==
    NoUnrecordedFile =>
        \A i \in 1..Len(ledger) :
            LET dir == DirOf(ledger[i].copy)
                k == Cardinality({j \in 1..i : DirOf(ledger[j].copy) = dir})
                source == CHOOSE f \in 1..NFiles : FullFilename(f) = ledger[i].original
            IN  /\ ledger[i].copy = PathJoin(dir, VersionedName(k - 1))
                /\ Exists(fs, ledger[i].copy)
                /\ fs[ledger[i].copy].content = Files[source].content

\* the path that the description of rename_copy gives: the directory and the
\* extension are kept, a trailing (digits) of the base name is replaced by the
\* next version and nothing else is removed, and (1) is appended otherwise
ExpectedRename(name) ==
    LET sp == PathSplit(name)
        se == SplitExt(sp[2])
        version == VersionSearch(se[1])
    IN  IF version # None
        THEN PathJoin(sp[1], SubSeq(se[1], 1, Len(se[1]) - Len(version) - 2)
                             \o <<"(">> \o Str(Int_(version) + 1) \o <<")">> \o se[2])
        ELSE PathJoin(sp[1], se[1] \o <<"(", "1", ")">> \o se[2])

\* C4: rename_copy replaces a trailing (n) of the base name by (n+1) and keeps
\* everything before it, or appends (1) when there is no such suffix.
VersionSuffixParsing == renamed # None => renamed = ExpectedRename(filename)

\* C5: a run that is neither terminated from outside nor stopped by the
\* opening of the ledger goes through every file of the walk, whatever
\* failed for one of them.
PerFileFailuresDoNotAbort ==
    pc \in {"done", "aborted"} => counter = Len(Walk(inputpath))

\* C6: already_copied is true exactly when the ledger holds a row of the
\* original whose copy lies below the output root.
AlreadyTransferredContract ==
    \A f \in 1..NFiles : \A root \in Roots :
        already_copied(ledger, FullFilename(f), root)
            <=> \E i \in 1..Len(ledger) : /\ ledger[i].original = FullFilename(f)
                                          /\ IsUnder(ledger[i].copy, root)

\* C11: a failure of the directory creation or of the copy adds no ledger
\* row, and a later run to the same output root that comes to a file whose
\* transfer failed, and has not succeeded since, does not skip it but
\* transfers it again.
RetryAfterFailureStep ==
    /\ pc' = "aborted" => ledger' = ledger
    /\ (pc = "check" /\ Transfer \in incidents) => pc' = "date"

RetryAfterFailure == [][RetryAfterFailureStep]_vars

\* the paths among w that are the copy of no row
Unrecorded(w, rows) ==
    {p \in w : \A i \in 1..Len(rows) : rows[i].copy # p}

\* C12: whenever the process is terminated, the ledger keeps every row that
\* it held, and at every point of a run at most one file written by the run
\* has no ledger row: the copy of the file that the run is at.
DurableCommitStep ==
    /\ pc' = "killed" => ledger' = ledger
    /\ Cardinality(Unrecorded(written', ledger')) <= 1
    /\ Unrecorded(written', ledger') # {} =>
          /\ Unrecorded(written', ledger') = {copy'}
          /\ pc' \in {"copying", "persist", "killed", "aborted"}

DurableCommit == [][DurableCommitStep]_vars

\* the process was terminated after it recorded a copy and wrote the next one
DurableCommitWitness ==
    /\ pc = "killed"
    /\ Len(ledger) > start_rows
    /\ Unrecorded(written, ledger) = {copy}

SameDay(d, e) == d.year = e.year /\ d.month = e.month /\ d.day = e.day

\* file f is the first file of the walk of Files with its resolved date
FirstOfDay(f) ==
    \A g \in 1..(f - 1) : ~SameDay(ExpectedDate(g)[2], ExpectedDate(f)[2])

\* the ledger has the row (full name of file f, path)
Recorded(f, path) ==
    \E i \in 1..Len(ledger) :
        ledger[i].original = FullFilename(f) /\ ledger[i].copy = path

\* C13: after a first run over the whole input tree that nothing disturbed,
\* two files of the same name with different resolved dates have their own
\* rows, with copies in the different directories of their dates, and a file
\* that no earlier file shares its date with is copied under its own name.
SameNameDifferentDates ==
    (pc = "done" /\ runs = 1 /\ faults = 0 /\ inputpath = DirI) =>
        \A f, g \in 1..NFiles :
            (/\ f # g
             /\ Files[f].name = Files[g].name
             /\ ~SameDay(ExpectedDate(f)[2], ExpectedDate(g)[2])) =>
                LET dirf == ExpectedDir(outputpath, ExpectedDate(f)[2])
                    dirg == ExpectedDir(outputpath, ExpectedDate(g)[2])
                IN  /\ dirf # dirg
                    /\ \E i \in 1..Len(ledger) :
                          /\ ledger[i].original = FullFilename(f)
                          /\ DirOf(ledger[i].copy) = dirf
                    /\ \E j \in 1..Len(ledger) :
                          /\ ledger[j].original = FullFilename(g)
                          /\ DirOf(ledger[j].copy) = dirg
                    /\ FirstOfDay(f) =>
                          /\ Recorded(f, PathJoin(dirf, Files[f].name))
                          /\ Exists(fs, PathJoin(dirf, Files[f].name))
                          /\ fs[PathJoin(dirf, Files[f].name)].content = Files[f].content

\* i/a/p.j without tag and i/b/p.j with a tag are at o/2010/3/5/p.j and
\* o/2001/11/19/p.j
SameNameDifferentDatesWitness ==
    /\ pc = "done" /\ runs = 1 /\ faults = 0 /\ inputpath = DirI
    /\ tags[1] = NoTag
    /\ tags[2] = TagGood
    /\ Recorded(1, <<"o", "/", "2", "0", "1", "0", "/", "3", "/", "5", "/",
                     "p", ".", "j">>)
    /\ Recorded(2, <<"o", "/", "2", "0", "0", "1", "/", "1", "1", "/", "1", "9", "/",
                     "p", ".", "j">>)

\* the ledger has a row of the current file whose copy contains the output
\* path of the run: already_copied returns True
CurrentIsCopied ==
    /\ rowFactory = "Row"
    /\ \E i \in 1..Len(ledger) :
          /\ ledger[i].original = FullFilename(Cur)
          /\ Contains(ledger[i].copy, outputpath)

\* C14: the step of process_path on a file for which already_copied returns
\* True increments counter and goes to the next file: it resolves no date,
\* creates no directory, copies nothing and leaves the ledger and
\* processed_counter as they are.
SkipHasNoEffectStep ==
    (pc = "check" /\ pc' # "killed" /\ CurrentIsCopied) =>
        /\ counter' = counter + 1
        /\ pc' \in {"check", "done"}
        /\ idx' = idx + 1
        /\ fs' = fs
        /\ ledger' = ledger
        /\ processed_counter' = processed_counter
        /\ UNCHANGED <<from_exif, file_date, copy, written, dbExists>>

SkipHasNoEffect == [][SkipHasNoEffectStep]_vars

\* a second run has skipped its first file and is at its second file
SkipHasNoEffectWitness ==
    /\ pc = "check"
    /\ runs = 2
    /\ idx = 2
    /\ counter = 1
    /\ processed_counter = 0
    /\ Len(ledger) = start_rows
    /\ \E i \in 1..Len(ledger) :
          /\ ledger[i].original = FullFilename(Walk(inputpath)[1])
          /\ IsUnder(ledger[i].copy, outputpath)

\* the number of files of the input tree in or below the directory top
FilesBelow(top) == Cardinality({f \in 1..NFiles : Below(Files[f].root, top)})

\* C15: when a run has completed, counter is the number of files in the
\* input path and processed_counter is the number of rows that the run added
\* to the ledger; processed_counter never exceeds counter.
RunCounters ==
    /\ pc = "done" =>
          /\ counter = FilesBelow(inputpath)
          /\ processed_counter = Len(ledger) - start_rows
    /\ pc \in Running \cup {"done", "aborted", "killed"} =>
          /\ processed_counter <= counter
          /\ processed_counter = Len(ledger) - start_rows

\* a run over three files has completed and has transferred two of them
RunCountersWitness ==
    /\ pc = "done"
    /\ counter = 3
    /\ processed_counter = 2
    /\ start_rows = 1
    /\ Len(ledger) = 3

\* a regular file stands at the year, month or day directory of date below root
SegmentBlocked(f, root, date) ==
    LET year == PathJoin(root, Str(date.year))
        month == PathJoin(year, Str(date.month))
        day == PathJoin(month, Str(date.day))
    IN  \E p \in {year, month, day} : Exists(f, p) /\ ~IsDir(f, p)

\* the tree f after somebody put a regular file where segment k (1 the year,
\* 2 the month, 3 the day) of the directory of date below root would go; f
\* itself when something is there or further up already
BlockedAt(f, root, date, k) ==
    LET segs == <<Str(date.year), Str(date.month), Str(date.day)>>
        above == MakeDirs(f, root, SubSeq(segs, 1, k - 1))
        p == PathJoin(above.path, segs[k])
    IN  IF above.ok /\ ~Exists(above.fs, p)
        THEN Put(above.fs, p, FileEntry(9, DateMar5))
        ELSE f

\* the output tree where copy_file calls get_or_create_path and between the
\* runs, and after a run that returned also the trees with one more regular
\* file at a segment below root
OutputTrees(root) ==
    IF pc = "done"
    THEN {fs} \cup {BlockedAt(fs, root, date, k) :
                        date \in {DateMar5, DateNov19}, k \in 1..3}
    ELSE IF pc = "dest" \/ pc \in Stopped THEN {fs}
    ELSE {}

\* C16: in every output tree that the runs produce or find, get_or_create_path
\* succeeds when no segment is blocked and returns root/year/month/day, a
\* second call with the same arguments succeeds, returns the same path and
\* creates nothing; when a segment exists as a non-directory the call fails
\* at that segment and creates nothing below it.
DirectoryCreationIdempotent ==
    \A root \in Roots : \A tree \in OutputTrees(root) : \A date \in ResolvedDates :
        LET first == get_or_create_path(tree, root, date)
            second == get_or_create_path(first.fs, root, date)
        IN  /\ first.ok <=> ~SegmentBlocked(tree, root, date)
            /\ first.ok =>
                  /\ first.path = ExpectedDir(root, date)
                  /\ IsDir(first.fs, first.path)
                  /\ second.ok
                  /\ second.path = first.path
                  /\ second.fs = first.fs
            /\ ~first.ok =>
                  /\ Exists(tree, first.path) /\ ~IsDir(tree, first.path)
                  /\ first.fs[first.path] = tree[first.path]
                  /\ \A p \in DOMAIN first.fs : ~IsUnder(p, first.path)
                  /\ \A p \in DOMAIN first.fs \ DOMAIN tree : IsUnder(first.path, p)
                  /\ ~second.ok /\ second.fs = first.fs

\* the second file of a run got the existing directory of its date, in an
\* output tree where a regular file stands at o/2010
DirectoryCreationIdempotentWitness ==
    /\ pc = "copy"
    /\ idx = 2
    /\ outputpath = RootO
    /\ IsDir(fs, DirOf(copy))
    /\ copy = <<"o", "/", "2", "0", "0", "1", "/", "1", "1", "/", "1", "9", "/",
                "p", "(", "1", ")", ".", "j">>
    /\ SegmentBlocked(fs, RootO, DateMar5)

\* the destination files that an interrupted copy left behind: shutil.copy2
\* had opened them when the run was terminated, and no row records them
Interrupted ==
    {q \in DOMAIN fs :
        fs[q] = PartialEntry /\ \A i \in 1..Len(ledger) : ledger[i].copy # q}

\* C17: a run over the input tree i that transfers a file again after an
\* interrupted copy writes to a new name: shutil.copy2 never opens a
\* destination file that an interrupted copy left behind.
RecoveryAfterInterruptedCopy ==
    [][(pc = "copy" /\ pc' = "copying" /\ inputpath = DirI)
          => copy \notin Interrupted]_vars

\* C18: collision resolution ends at a free name: the candidate path that
\* copy_file hands to shutil.copy2 is a path at which no entry exists.
CollisionResolutionEndsFree == pc = "copy" => ~Exists(fs, copy)

\* every run so far walked its whole input and returned
RunsCompleted ==
    /\ pc = "done"
    /\ faults = 0
    /\ runs = 1 \/ last # NoRun

\* C19: after completed runs no two rows have the same copy, and the file at
\* the copy of every row exists and holds the content of the row's original.
LedgerMatchesDisk ==
    RunsCompleted =>
        /\ \A i, j \in 1..Len(ledger) : ledger[i].copy = ledger[j].copy => i = j
        /\ \A i \in 1..Len(ledger) :
              LET source == CHOOSE f \in 1..NFiles :
                                FullFilename(f) = ledger[i].original
              IN  /\ Exists(fs, ledger[i].copy)
                  /\ fs[ledger[i].copy].kind = "file"
                  /\ fs[ledger[i].copy].content = Files[source].content

====
